---- MODULE Spec2Model ----
(***************************************************************************)
(* Outline rendering pipeline of react-scan (new-outlines).                *)
(*                                                                         *)
(*   Spec          the Outline Aggregator: outlineFiber, the flush timer,  *)
(*                 flushOutlines with its own getBatchedRectMap consumer.  *)
(*   SpecResolver  getBatchedRectMap on its own, driven by any consumer.   *)
(*   SpecRenderer  the two OutlineRenderer backends.                       *)
(*                                                                         *)
(* One action is one JavaScript task together with the microtasks it       *)
(* leaves behind: the event loop runs them to completion before the next   *)
(* task starts.                                                            *)
(***************************************************************************)
EXTENDS Integers, Sequences, FiniteSets, Bags, TLC

(***************************************************************************)
(* Bounds of the model.                                                    *)
(***************************************************************************)
\* outlineFiber calls per blueprint
MaxCount == 2
\* flushOutlines invocations scheduled or in flight at the same time
MaxFlush == 2
\* entries in one IntersectionObserver notification
MaxBurst == 2
\* elements handed to getBatchedRectMap by a consumer of its own
MaxElements == 2
\* draw callbacks waiting for the next frame
MaxDraws == 2
\* messages waiting in the worker's queue
MaxInbox == 2
\* scroll calls made on a renderer
MaxScroll == 1
\* getCanvasEl calls
MaxSetups == 2
\* scroll events of the window
MaxScrollEvents == 3
\* rectangles handed to mergeRects
MaxRects == 3

(***************************************************************************)
(* The host tree: fibers and the state nodes of their nearest host fibers. *)
(***************************************************************************)
NULL == "null"

\* The function of a map without keys
NoFiber == [f \in {} |-> NULL]

\* "H" is a host fiber (not composite), "N" a composite fiber without a
\* display name; "A" and "B" are named composite fibers.
Fibers == {"A", "B", "H", "N"}

isCompositeFiber(fiber) == fiber # "H"

getDisplayName(fiber) == IF fiber = "N" THEN NULL ELSE fiber

getFiberId(fiber) == CASE fiber = "A" -> 1
                       [] fiber = "B" -> 2
                       [] fiber = "H" -> 3
                       [] fiber = "N" -> 4

\* DOM elements; "txt" is a state node that is not an Element.
Elements == {"e1", "e2", "e3"}

isElement(node) == node \in Elements

\* The trees the pipeline is run on: each gives fiber.stateNode of the
\* nearest host fibers of every fiber.
Trees == {
  [A |-> <<"e1", "txt", "e2">>, B |-> <<"txt">>, H |-> <<"e1">>, N |-> <<"e2">>],
  [A |-> <<"e1", "e2">>, B |-> <<"e2">>, H |-> <<"e1">>, N |-> <<"e2">>] }

\* The rectangle an element occupies when it intersects the viewport.
RectOf(element) == IF element = "e1"
                   THEN [x |-> 0, y |-> 0, width |-> 10, height |-> 10]
                   ELSE [x |-> 20, y |-> 20, width |-> 10, height |-> 10]

ZeroRect == [x |-> 0, y |-> 0, width |-> 0, height |-> 0]

\* How the page lays the elements out: an element is in the viewport
\* ("visible"), touches it with an empty intersection ("edge"), or is outside
\* of it ("hidden").
Layouts == [e1 : {"visible", "hidden"}, e2 : {"visible", "edge"}]

\* The IntersectionObserverEntry the observer reports for a target.
EntryOf(kind, element) ==
  [target |-> element,
   isIntersecting |-> kind # "hidden",
   intersectionRect |-> CASE kind = "visible" -> RectOf(element)
                          [] kind = "edge" -> [RectOf(element) EXCEPT !.width = 0]
                          [] kind = "hidden" -> ZeroRect]

Range(s) == {s[i] : i \in 1..Len(s)}

\* The targets of a notification burst over the observed targets: the observer
\* may report a target again, within a burst and in a later one.
Bursts(targets) == UNION {[1..n -> targets] : n \in 1..MaxBurst}

Min(a, b) == IF a < b THEN a ELSE b
Max(a, b) == IF a > b THEN a ELSE b

VARIABLES
  tree,              \* the host tree of this run
  layout,            \* the layout of its elements
  blueprintMap,      \* Map<Fiber, BlueprintOutline>
  blueprintMapKeys,  \* Set<Fiber>, in insertion order
  calls,             \* per blueprint: outlineFiber calls since it was created
  rafFlush,          \* flushOutlines callbacks waiting for the next frame
  flushes,           \* the flushOutlines invocations in flight (a bag)
  rendered,          \* outlineData of the renderOutlines call of the last step
  cleared,           \* blueprints deleted by the last step
  delivered,         \* per blueprint the flush completed by the last step
                     \* passed to the renderer: the outlineFiber calls made
                     \* for it and the renderOutlines calls that carried it
  \* getBatchedRectMap driven by a consumer of its own
  argElements,       \* the argument of getBatchedRectMap
  resolver,          \* the generator's state
  consumer,          \* "unstarted", "waiting" (in next()), "idle", "closed"
  yielded,           \* the targets of the entries yielded so far, in order
  repeated,          \* whether the observer has reported a target again
  \* an OutlineRenderer
  backend,           \* "canvas" (CanvasOutlineRenderer) or "worker"
  ctx,               \* whether canvas.getContext("2d") returned a context
  canvas,            \* the canvas element: width, height, style
  size,              \* this.size
  isResizeScheduled, \* this.isResizeScheduled; its timer is pending while TRUE
  activeOutlines,    \* Map<string, ActiveOutline>
  animationFrameId,  \* NULL or the handle of the last requested frame
  frameCallbacks,    \* draw callbacks waiting for the next frame
  workerAlive,       \* the worker has not been terminated
  inbox,             \* messages posted to the worker and not yet handled
  scrolled,          \* scroll calls made so far
  disposed,          \* dispose() has been called
  drew,              \* draw steps executed by the last step
  resizeArgs,        \* the first and the last size passed to resize since a timer was last set
  \* the page getCanvasEl sets the pipeline up on
  supported,         \* IS_OFFSCREEN_CANVAS_WORKER_SUPPORTED
  useExtensionWorker,\* the "use-extension-worker" entry of localStorage
  listeners,         \* the scroll listeners added so far, each with its closure
  scrollPos,         \* <<window.scrollX, window.scrollY>>
  scrollEvents,      \* scroll events dispatched so far
  forwarded,         \* sum of the deltas passed to outlineRenderer.scroll
  \* mergeRects on its own
  rectList,          \* its argument
  mergedRect         \* <<>>, or its result in a sequence of length one

aggVars == <<tree, layout, blueprintMap, blueprintMapKeys, calls,
             rafFlush, flushes, rendered, cleared, delivered>>

genVars == <<argElements, resolver, consumer, yielded, repeated>>

rndVars == <<backend, ctx, canvas, size, isResizeScheduled, activeOutlines,
             animationFrameId, frameCallbacks, workerAlive, inbox, scrolled,
             disposed, drew, resizeArgs>>

glueVars == <<supported, useExtensionWorker, listeners, scrollPos, scrollEvents,
              forwarded>>

mergeVars == <<rectList, mergedRect>>

auxVars == <<glueVars, mergeVars>>

vars == <<aggVars, genVars, rndVars, auxVars>>

(***************************************************************************)
(* outlineFiber                                                            *)
(***************************************************************************)
\* blueprintMap after outlineFiber(fiber) when didFiberCommit(fiber) = commit
RecordBlueprint(map, nodes, fiber, commit) ==
  IF fiber \notin DOMAIN map
  THEN [f \in DOMAIN map \cup {fiber} |->
          IF f = fiber
          THEN [name |-> getDisplayName(fiber), count |-> 1,
                elements |-> nodes, didCommit |-> IF commit THEN 1 ELSE 0]
          ELSE map[f]]
  ELSE [map EXCEPT ![fiber].count = @ + 1]

\* blueprintMapKeys.add(fiber)
SetAdd(keys, fiber) == IF fiber \in Range(keys) THEN keys ELSE Append(keys, fiber)

outlineFiber(fiber, commit) ==
  /\ fiber \in DOMAIN blueprintMap => blueprintMap[fiber].count < MaxCount
  /\ IF ~isCompositeFiber(fiber) \/ getDisplayName(fiber) = NULL
     THEN UNCHANGED <<blueprintMap, blueprintMapKeys, calls>>
     ELSE /\ blueprintMap' = RecordBlueprint(blueprintMap, tree[fiber], fiber, commit)
          /\ blueprintMapKeys' = IF fiber \in DOMAIN blueprintMap
                                 THEN blueprintMapKeys
                                 ELSE SetAdd(blueprintMapKeys, fiber)
          /\ calls' = [f \in DOMAIN blueprintMap' |->
                         IF f = fiber
                         THEN (IF f \in DOMAIN calls THEN calls[f] + 1 ELSE 1)
                         ELSE calls[f]]
  /\ rendered' = <<>>
  /\ cleared' = <<>>
  /\ delivered' = NoFiber
  /\ UNCHANGED <<tree, layout, rafFlush, flushes, genVars, rndVars, auxVars>>

(***************************************************************************)
(* mergeRects                                                              *)
(***************************************************************************)
RECURSIVE MergeOrigins(_, _, _)
\* A loop that takes the maxima over the rectangles' origins, not over their
\* far edges
MergeOrigins(rects, i, b) ==
  IF i > Len(rects) THEN b
  ELSE LET rect == rects[i]
       IN  MergeOrigins(rects, i + 1,
             IF b.undef
             THEN [undef |-> FALSE, minX |-> rect.x, minY |-> rect.y,
                   maxX |-> rect.x + rect.width, maxY |-> rect.y + rect.height]
             ELSE [undef |-> FALSE,
                   minX |-> IF b.minX < rect.x THEN b.minX ELSE rect.x,
                   minY |-> IF b.minY < rect.y THEN b.minY ELSE rect.y,
                   maxX |-> IF b.maxX > rect.x THEN b.maxX ELSE rect.x,
                   maxY |-> IF b.maxY > rect.y THEN b.maxY ELSE rect.y])

RECURSIVE MergeLoop(_, _, _)
\* The for loop of mergeRects from index i on; b holds minX, minY, maxX, maxY,
\* which are undefined (b.undef) until the first rectangle is read.
MergeLoop(rects, i, b) ==
  IF i > Len(rects) THEN b
  ELSE LET rect == rects[i]
       IN  MergeLoop(rects, i + 1,
             IF b.undef
             THEN [undef |-> FALSE, minX |-> rect.x, minY |-> rect.y,
                   maxX |-> rect.x + rect.width, maxY |-> rect.y + rect.height]
             ELSE [undef |-> FALSE,
                   minX |-> Min(b.minX, rect.x), minY |-> Min(b.minY, rect.y),
                   maxX |-> Max(b.maxX, rect.x + rect.width),
                   maxY |-> Max(b.maxY, rect.y + rect.height)])

Undefined == [undef |-> TRUE, minX |-> 0, minY |-> 0, maxX |-> 0, maxY |-> 0]

mergeRects(rects) ==
  IF Len(rects) = 1 THEN rects[1]
  ELSE LET b == MergeLoop(rects, 1, Undefined)
       IN  IF b.undef THEN rects[1]
           ELSE [x |-> b.minX, y |-> b.minY,
                 width |-> b.maxX - b.minX, height |-> b.maxY - b.minY]

(***************************************************************************)
(* getBatchedRectMap: the generator's state is                             *)
(*   uniqueElements, seenElements, done, and resolveNext (TRUE while it    *)
(*   holds the resolve function of a promise the consumer awaits).         *)
(***************************************************************************)
\* The generator's body up to its first await: the observer is created, the
\* elements are observed and the loop installs resolveNext.
StartResolver(elements) ==
  [uniqueElements |-> Range(elements), seenElements |-> {},
   resolveNext |-> TRUE, done |-> FALSE]

RECURSIVE EveryEntry(_, _, _)
\* A loop that marks the targets seen and keeps every entry, seen or not.
EveryEntry(seen, entries, new) ==
  IF entries = <<>> THEN [seenElements |-> seen, newEntries |-> new]
  ELSE EveryEntry(seen \cup {Head(entries).target}, Tail(entries),
                  Append(new, Head(entries)))

RECURSIVE UnseenEntries(_, _, _)
UnseenEntries(seen, entries, new) ==
  IF entries = <<>> THEN [seenElements |-> seen, newEntries |-> new]
  ELSE LET entry == Head(entries)
       IN  IF entry.target \notin seen
           THEN UnseenEntries(seen \cup {entry.target}, Tail(entries), Append(new, entry))
           ELSE UnseenEntries(seen, Tail(entries), new)

\* The callback's loop over entries: the entries whose target was not seen
\* yet, and the seen set after the loop.
NewEntries(seen, entries, new) == UnseenEntries(seen, entries, new)

\* The IntersectionObserver callback: the generator's state after it, whether
\* it settled the consumer's promise, and the value it settled it with.
ObserverCallback(gen, entries) ==
  LET loop == NewEntries(gen.seenElements, entries, <<>>)
      hand == Len(loop.newEntries) > 0 /\ gen.resolveNext
      full == Cardinality(loop.seenElements) = Cardinality(gen.uniqueElements)
      next == IF hand THEN FALSE ELSE gen.resolveNext
  IN  [gen |-> [gen EXCEPT !.seenElements = loop.seenElements,
                           !.resolveNext = next,
                           !.done = @ \/ full],
       settled |-> hand \/ (full /\ next),
       value |-> IF hand THEN loop.newEntries ELSE <<>>]

\* The observer delivers notifications while it observes at least one target
\* and has not been disconnected.
Observing(gen) == ~gen.done /\ gen.uniqueElements # {}

(***************************************************************************)
(* The OutlineRenderer backends                                            *)
(***************************************************************************)
\* getDpr() is at most 2
Dpr == 2

\* Frames an ActiveOutline is drawn for before drawCanvas drops it
TotalFrames == 2

\* The OutlineData records a caller passes to renderOutlines: two ids, and
\* the first id once more with another count, rectangle and didCommit.
OutlineRecords ==
  {[id |-> i, name |-> IF i = 1 THEN "A" ELSE "B", count |-> 1,
    x |-> 0, y |-> 0, width |-> 10, height |-> 10, didCommit |-> 1] : i \in {1, 2}}
  \cup {[id |-> 1, name |-> "A", count |-> 2,
          x |-> 20, y |-> 0, width |-> 30, height |-> 10, didCommit |-> 0]}

OutlineLists == UNION {[1..n -> OutlineRecords] : n \in 1..2}

\* The records passed to the worker backend: small values, and an id beyond
\* the integers a single-precision number holds exactly.
WireRecords ==
  {[id |-> 1, name |-> "A", count |-> 3,
    x |-> 1, y |-> 2, width |-> 3, height |-> 4, didCommit |-> 1],
   [id |-> 16777217, name |-> "B", count |-> 1,
    x |-> 0, y |-> 0, width |-> 10, height |-> 10, didCommit |-> 0]}

WireLists == UNION {[1..n -> WireRecords] : n \in 0..2}

OUTLINE_ARRAY_SIZE == 7

RECURSIVE Ulp(_)
\* The distance between the single-precision numbers around a natural number
Ulp(v) == IF v < 16777216 THEN 1 ELSE 2 * Ulp(v \div 2)

\* The value a Float32Array element holds after a natural number is stored
\* in it: the nearest single-precision number, ties to the even mantissa.
Fround(v) ==
  LET ulp == Ulp(v)
      q == v \div ulp
      r == v % ulp
  IN  IF 2 * r > ulp \/ (2 * r = ulp /\ q % 2 = 1) THEN (q + 1) * ulp ELSE q * ulp

\* The mistaken index of a loop that forgets the stride
UnscaledIndex(i) == i

\* scaledIndex of the i-th record (from 0)
ScaledIndex(i) == i * OUTLINE_ARRAY_SIZE

\* The seven assignments to sharedView for one record; a typed array ignores
\* a store beyond its end.
WriteRecord(view, base, o) ==
  LET slots == <<o.id, o.count, o.x, o.y, o.width, o.height, o.didCommit>>
  IN  [k \in DOMAIN view |->
         IF k - 1 \in base..(base + OUTLINE_ARRAY_SIZE - 1)
         THEN Fround(slots[k - base]) ELSE view[k]]

RECURSIVE PackLoop(_, _, _)
PackLoop(view, outlines, i) ==
  IF i > Len(outlines) THEN view
  ELSE PackLoop(WriteRecord(view, ScaledIndex(i - 1), outlines[i]), outlines, i + 1)

\* The draw-outlines message WorkerOutlineRenderer.renderOutlines builds: the
\* buffer with its byte length and its contents seen as a Float32Array (one
\* element per 4 bytes, zero after allocation), and the names.
DrawOutlinesMessage(outlines) ==
  LET byteLength == Len(outlines) * OUTLINE_ARRAY_SIZE * 4
  IN  [type |-> "draw-outlines",
       data |-> [byteLength |-> byteLength,
                 view |-> PackLoop([k \in 1..(byteLength \div 4) |-> 0], outlines, 1)],
       names |-> [k \in 1..Len(outlines) |-> outlines[k].name]]

\* The pixels a scroll call shifts by
ScrollDeltas == {<<5, 0>>}

\* A setCanvasSize that forgets the device pixel ratio
SetSizeUnscaled(sz) ==
  [width |-> sz.width, height |-> sz.height,
   styleWidth |-> "{size.width}px", styleHeight |-> "{size.height}px"]

\* setCanvasSize of CanvasOutlineRenderer: the style strings are written
\* without "$", so they do not hold the size.
CanvasSetSize(sz) ==
  [width |-> sz.width * Dpr, height |-> sz.height * Dpr,
   styleWidth |-> "{size.width}px", styleHeight |-> "{size.height}px"]

\* setCanvasSize of WorkerOutlineRenderer: only the style is set; the drawing
\* surface belongs to the worker.
WorkerSetSize(cv, sz) ==
  [cv EXCEPT !.styleWidth = ToString(sz.width) \o "px",
             !.styleHeight = ToString(sz.height) \o "px"]

\* The ActiveOutline updateOutlines builds from an OutlineData record
NewOutline(o) ==
  [id |-> o.id, name |-> o.name, count |-> o.count,
   x |-> o.x, y |-> o.y, width |-> o.width, height |-> o.height,
   frame |-> 0,
   targetX |-> o.x, targetY |-> o.y,
   targetWidth |-> o.width, targetHeight |-> o.height,
   didCommit |-> o.didCommit]

RECURSIVE SumOutlines(_, _)
\* A merge that adds the record's count to the count of an active id
SumOutlines(active, outlines) ==
  IF outlines = <<>> THEN active
  ELSE LET o == Head(outlines)
           key == ToString(o.id)
       IN  SumOutlines(
             IF key \in DOMAIN active
             THEN [active EXCEPT ![key] =
                     [@ EXCEPT !.count = @ + o.count, !.frame = 0,
                               !.targetX = o.x, !.targetY = o.y,
                               !.targetWidth = o.width, !.targetHeight = o.height,
                               !.didCommit = o.didCommit]]
             ELSE [k \in DOMAIN active \cup {key} |->
                     IF k = key THEN NewOutline(o) ELSE active[k]],
             Tail(outlines))

RECURSIVE SetOutlines(_, _)
\* A merge that stores every record with Map.set, whether its id is active or not
SetOutlines(active, outlines) ==
  IF outlines = <<>> THEN active
  ELSE LET o == Head(outlines)
           key == ToString(o.id)
       IN  SetOutlines([k \in DOMAIN active \cup {key} |->
                          IF k = key THEN NewOutline(o) ELSE active[k]],
                       Tail(outlines))

RECURSIVE updateOutlines(_, _)
updateOutlines(active, outlines) ==
  IF outlines = <<>> THEN active
  ELSE LET o == Head(outlines)
           key == ToString(o.id)
       IN  updateOutlines(
             IF key \in DOMAIN active
             THEN [active EXCEPT ![key] =
                     [@ EXCEPT !.count = @ + 1, !.frame = 0,
                               !.targetX = o.x, !.targetY = o.y,
                               !.targetWidth = o.width, !.targetHeight = o.height,
                               !.didCommit = o.didCommit]]
             ELSE [k \in DOMAIN active \cup {key} |->
                     IF k = key THEN NewOutline(o) ELSE active[k]],
             Tail(outlines))

\* drawCanvas: every outline moves to its target and ages by one frame, the
\* outlines older than TotalFrames are dropped, and the result tells whether
\* an outline is left.
drawCanvas(active) ==
  LET aged == [k \in DOMAIN active |->
                 [active[k] EXCEPT !.x = active[k].targetX, !.y = active[k].targetY,
                                   !.width = active[k].targetWidth,
                                   !.height = active[k].targetHeight,
                                   !.frame = @ + 1]]
      kept == {k \in DOMAIN aged : aged[k].frame <= TotalFrames}
  IN  [active |-> [k \in kept |-> aged[k]], shouldContinue |-> kept # {}]

\* updateScroll: every outline and its target are shifted by the deltas.
updateScroll(active, deltaX, deltaY) ==
  [k \in DOMAIN active |->
     [active[k] EXCEPT !.x = @ + deltaX, !.y = @ + deltaY,
                       !.targetX = @ + deltaX, !.targetY = @ + deltaY]]

\* CanvasOutlineRenderer.draw on the loop state
\*   [active, animationFrameId, queued, drew]
\* where queued counts the callbacks requested for the frame to come.
Draw(st) ==
  IF ~ctx THEN st
  ELSE LET dc == drawCanvas(st.active)
       IN  IF dc.shouldContinue
           THEN [active |-> dc.active, animationFrameId |-> "frame",
                 queued |-> st.queued + 1, drew |-> st.drew + 1]
           ELSE [active |-> dc.active, animationFrameId |-> NULL,
                 queued |-> st.queued, drew |-> st.drew + 1]

RECURSIVE RunCallbacks(_, _)
\* The callbacks of one frame, run one after the other
RunCallbacks(n, st) == IF n = 0 THEN st ELSE RunCallbacks(n - 1, Draw(st))

\* worker.postMessage: a terminated worker receives nothing
PostMessage(box, message) == IF workerAlive THEN Append(box, message) ELSE box

\* A renderOutlines call on the renderer
CallRenderOutlines(outlines) ==
  /\ backend # NULL
  /\ IF backend = "canvas"
     THEN /\ \A k \in 1..Len(outlines) :
                ToString(outlines[k].id) \in DOMAIN activeOutlines
                  => activeOutlines[ToString(outlines[k].id)].count + Len(outlines)
                       <= MaxCount + 1
          /\ activeOutlines' = updateOutlines(activeOutlines, outlines)
          /\ IF animationFrameId = NULL
             THEN /\ frameCallbacks < MaxDraws
                  /\ animationFrameId' = "frame"
                  /\ frameCallbacks' = frameCallbacks + 1
             ELSE UNCHANGED <<animationFrameId, frameCallbacks>>
          /\ UNCHANGED inbox
     ELSE /\ Len(inbox) < MaxInbox
          /\ inbox' = PostMessage(inbox, DrawOutlinesMessage(outlines))
          /\ UNCHANGED <<activeOutlines, animationFrameId, frameCallbacks>>
  /\ drew' = 0
  /\ UNCHANGED <<backend, resizeArgs, ctx, canvas, size, isResizeScheduled, workerAlive,
                 scrolled, disposed>>

renderOutlines(outlines) ==
  /\ CallRenderOutlines(outlines)
  /\ UNCHANGED <<aggVars, genVars, auxVars>>

(***************************************************************************)
(* flushOutlines                                                           *)
(***************************************************************************)
RECURSIVE CollectElements(_, _)
\* The first loop of flushOutlines: the Elements of every blueprint.
CollectElements(map, keys) ==
  IF keys = <<>> THEN <<>>
  ELSE (IF Head(keys) \in DOMAIN map
        THEN SelectSeq(map[Head(keys)].elements, isElement)
        ELSE <<>>) \o CollectElements(map, Tail(keys))

RECURSIVE UpdateRectsAny(_, _)
\* A loop that stores the rectangle of every intersecting entry, empty or not
UpdateRectsAny(rectsMap, entries) ==
  IF entries = <<>> THEN rectsMap
  ELSE LET entry == Head(entries)
       IN  UpdateRectsAny(
             IF entry.isIntersecting
             THEN [e \in DOMAIN rectsMap \cup {entry.target} |->
                     IF e = entry.target THEN entry.intersectionRect ELSE rectsMap[e]]
             ELSE rectsMap,
             Tail(entries))

RECURSIVE UpdateRects(_, _)
\* rectsMap after the loop over a batch's entries
UpdateRects(rectsMap, entries) ==
  IF entries = <<>> THEN rectsMap
  ELSE LET entry == Head(entries)
           rect == entry.intersectionRect
       IN  UpdateRects(
             IF entry.isIntersecting /\ rect.width # 0 /\ rect.height # 0
             THEN [e \in DOMAIN rectsMap \cup {entry.target} |->
                     IF e = entry.target THEN rect ELSE rectsMap[e]]
             ELSE rectsMap,
             Tail(entries))

RECURSIVE BlueprintRects(_, _)
\* The rectangles known for a blueprint's elements, in element order
BlueprintRects(elements, rectsMap) ==
  IF elements = <<>> THEN <<>>
  ELSE (IF Head(elements) \in DOMAIN rectsMap
        THEN <<rectsMap[Head(elements)]>> ELSE <<>>)
       \o BlueprintRects(Tail(elements), rectsMap)

RECURSIVE OutlineData(_, _, _)
\* The outlineData built after a batch: one record per blueprint that has a
\* rectangle, in the order of blueprintMapKeys.
OutlineData(map, keys, rectsMap) ==
  IF keys = <<>> THEN <<>>
  ELSE LET fiber == Head(keys)
           rects == IF fiber \in DOMAIN map
                    THEN BlueprintRects(map[fiber].elements, rectsMap) ELSE <<>>
           rest == OutlineData(map, Tail(keys), rectsMap)
       IN  IF rects = <<>> THEN rest
           ELSE LET r == mergeRects(rects)
                IN  <<[id |-> getFiberId(fiber), name |-> map[fiber].name,
                       count |-> map[fiber].count,
                       x |-> r.x, y |-> r.y, width |-> r.width, height |-> r.height,
                       didCommit |-> map[fiber].didCommit]>> \o rest

RECURSIVE ClearSkipping(_, _, _)
\* A deleting loop that skips the key following each key it deletes, as an
\* index-based loop over a list that shrinks under it would.
ClearSkipping(map, keys, i) ==
  IF i > Len(keys) THEN [map |-> map, keys |-> keys]
  ELSE ClearSkipping([f \in DOMAIN map \ {keys[i]} |-> map[f]],
                     SubSeq(keys, 1, i - 1) \o SubSeq(keys, i + 1, Len(keys)),
                     i + 1)

ClearEveryOther(map, keys) == ClearSkipping(map, keys, 1)

RECURSIVE ClearLoop(_, _)
ClearLoop(map, keys) ==
  IF keys = <<>> THEN [map |-> map, keys |-> keys]
  ELSE ClearLoop([f \in DOMAIN map \ {Head(keys)} |-> map[f]], Tail(keys))

\* The last loop of flushOutlines: every key the iteration of blueprintMapKeys
\* visits is deleted from the map and from the set; deleting the key being
\* visited does not make the iteration skip the following one.
ClearBlueprints(map, keys) == ClearLoop(map, keys)

EmptyMap == [f \in {} |-> NULL]

\* The flushOutlines invocations suspended in their for await loop
InFlight == BagToSet(flushes)

\* setInterval callback of getCanvasEl
flushTimer ==
  /\ IF Len(blueprintMapKeys) > 0
     THEN /\ rafFlush + BagCardinality(flushes) < MaxFlush
          /\ rafFlush' = rafFlush + 1
     ELSE UNCHANGED rafFlush
  /\ rendered' = <<>>
  /\ cleared' = <<>>
  /\ delivered' = NoFiber
  /\ UNCHANGED <<tree, layout, blueprintMap, blueprintMapKeys, calls, flushes, genVars, rndVars, auxVars>>

\* A flushOutlines that makes a renderOutlines call with the outlines it has
\* before the first batch has arrived
flushOutlinesEager ==
  /\ rafFlush > 0
  /\ rafFlush' = rafFlush - 1
  /\ flushes' = flushes (+) SetToBag({
       [gen |-> StartResolver(CollectElements(blueprintMap, blueprintMapKeys)),
        rectsMap |-> EmptyMap,
        emitted |-> NoFiber]})
  /\ rendered' = <<>>
  /\ cleared' = <<>>
  /\ delivered' = NoFiber
  /\ IF backend # NULL
     THEN CallRenderOutlines(OutlineData(blueprintMap, blueprintMapKeys, EmptyMap))
     ELSE UNCHANGED rndVars
  /\ UNCHANGED <<tree, layout, blueprintMap, blueprintMapKeys, calls, genVars, auxVars>>

\* The frame callback: flushOutlines up to its first suspension, in
\* getBatchedRectMap's await.
flushOutlines ==
  /\ rafFlush > 0
  /\ rafFlush' = rafFlush - 1
  /\ flushes' = flushes (+) SetToBag({
       [gen |-> StartResolver(CollectElements(blueprintMap, blueprintMapKeys)),
        rectsMap |-> EmptyMap,
        emitted |-> NoFiber]})
  /\ rendered' = <<>>
  /\ cleared' = <<>>
  /\ delivered' = NoFiber
  /\ UNCHANGED <<tree, layout, blueprintMap, blueprintMapKeys, calls, genVars, rndVars, auxVars>>

\* The blueprints the records of an outlineData list were built from
FibersOf(outlineData) ==
  {f \in Fibers : \E k \in 1..Len(outlineData) : outlineData[k].id = getFiberId(f)}

\* Per blueprint, the renderOutlines calls of an invocation that carried it,
\* after one more batch; outlineRenderer?.renderOutlines makes no call while
\* there is no renderer.
Emitted(emitted, outlineData) ==
  IF backend = NULL THEN emitted
  ELSE [f \in DOMAIN emitted \cup FibersOf(outlineData) |->
          (IF f \in DOMAIN emitted THEN emitted[f] ELSE 0)
            + (IF f \in FibersOf(outlineData) THEN 1 ELSE 0)]

\* One notification of the observer of the invocation fl, and the microtasks
\* that follow it: the generator resumes, flushOutlines handles the batch,
\* hands the outlines to the renderer and pulls again, and when the generator
\* returns, flushOutlines deletes the blueprints.
observerNotify(fl, targets) ==
  /\ fl \in InFlight
  /\ Observing(fl.gen)
  /\ \E cb \in {ObserverCallback(fl.gen,
         [k \in 1..Len(targets) |-> EntryOf(layout[targets[k]], targets[k])])} :
       IF ~cb.settled
       THEN /\ flushes' = (flushes (-) SetToBag({fl}))
                          (+) SetToBag({[fl EXCEPT !.gen = cb.gen]})
            /\ rendered' = <<>>
            /\ cleared' = <<>>
            /\ delivered' = NoFiber
            /\ UNCHANGED <<blueprintMap, blueprintMapKeys, calls, rndVars>>
       ELSE \E rects \in {IF cb.value # <<>>
                           THEN UpdateRects(fl.rectsMap, cb.value)
                           ELSE fl.rectsMap} :
              /\ rendered' = IF cb.value # <<>>
                             THEN OutlineData(blueprintMap, blueprintMapKeys, rects)
                             ELSE <<>>
              /\ IF rendered' # <<>> /\ backend # NULL
                 THEN CallRenderOutlines(rendered')
                 ELSE UNCHANGED rndVars
              /\ IF cb.gen.done
                 THEN \E after \in {ClearBlueprints(blueprintMap, blueprintMapKeys)} :
                        /\ flushes' = flushes (-) SetToBag({fl})
                        /\ blueprintMap' = after.map
                        /\ blueprintMapKeys' = after.keys
                        /\ calls' = [f \in DOMAIN after.map |-> calls[f]]
                        /\ cleared' = blueprintMapKeys
                        /\ delivered' =
                             [f \in DOMAIN Emitted(fl.emitted, rendered') |->
                                [calls |-> IF f \in DOMAIN calls THEN calls[f] ELSE 0,
                                 batches |-> Emitted(fl.emitted, rendered')[f]]]
                 ELSE /\ flushes' = (flushes (-) SetToBag({fl})) (+) SetToBag({
                           [fl EXCEPT !.gen = [cb.gen EXCEPT !.resolveNext = TRUE],
                                      !.rectsMap = rects,
                                      !.emitted = Emitted(fl.emitted, rendered')]})
                      /\ cleared' = <<>>
                      /\ delivered' = NoFiber
                      /\ UNCHANGED <<blueprintMap, blueprintMapKeys, calls>>
  /\ UNCHANGED <<tree, layout, rafFlush, genVars, auxVars>>

\* getBatchedRectMap before a consumer has called it
NoResolver == [uniqueElements |-> {}, seenElements |-> {},
               resolveNext |-> FALSE, done |-> FALSE]

GenIdle ==
  /\ argElements = <<>>
  /\ resolver = NoResolver
  /\ consumer = "unstarted"
  /\ yielded = <<>>
  /\ repeated = FALSE

\* The aggregator before the first outlineFiber call
NothingRecorded ==
  /\ blueprintMap = EmptyMap
  /\ blueprintMapKeys = <<>>
  /\ calls = EmptyMap
  /\ rafFlush = 0
  /\ flushes = EmptyBag
  /\ rendered = <<>>
  /\ cleared = <<>>
  /\ delivered = NoFiber

AggIdle ==
  /\ tree = [f \in Fibers |-> <<>>]
  /\ layout = [e \in {"e1", "e2"} |-> "hidden"]
  /\ NothingRecorded

\* The two sizes a window takes
Sizes == {[width |-> 100, height |-> 50], [width |-> 200, height |-> 50]}

InitialSize == [width |-> 100, height |-> 50]

\* The canvas before a renderer is constructed
BlankCanvas == [width |-> 0, height |-> 0, styleWidth |-> "", styleHeight |-> ""]

\* No renderer has been constructed
RendererIdle ==
  /\ backend = NULL
  /\ ctx = FALSE
  /\ canvas = BlankCanvas
  /\ size = InitialSize
  /\ isResizeScheduled = FALSE
  /\ activeOutlines = EmptyMap
  /\ animationFrameId = NULL
  /\ frameCallbacks = 0
  /\ workerAlive = FALSE
  /\ inbox = <<>>
  /\ scrolled = 0
  /\ disposed = FALSE
  /\ drew = 0
  /\ resizeArgs = <<>>

\* The page before getCanvasEl has been called
GlueIdle ==
  /\ supported = FALSE
  /\ useExtensionWorker = FALSE
  /\ listeners = <<>>
  /\ scrollPos = <<0, 0>>
  /\ scrollEvents = 0
  /\ forwarded = <<0, 0>>

\* mergeRects has not been called
MergeIdle ==
  /\ rectList = <<>>
  /\ mergedRect = <<>>

AuxIdle == GlueIdle /\ MergeIdle

Init ==
  /\ GenIdle
  /\ RendererIdle
  /\ AuxIdle
  /\ tree \in Trees
  /\ layout \in Layouts
  /\ NothingRecorded

Record == \E fiber \in Fibers, commit \in BOOLEAN : outlineFiber(fiber, commit)

Notify == \E fl \in InFlight :
            \E targets \in Bursts(fl.gen.uniqueElements) : observerNotify(fl, targets)

Next ==
  \/ Record
  \/ flushTimer
  \/ flushOutlines
  \/ Notify

Spec == Init /\ [][Next]_vars

(***************************************************************************)
(* Claims about the Outline Aggregator, under Spec                         *)
(***************************************************************************)
\* C1: every outlineFiber call that records a render leaves the blueprint with
\* count equal to the number of calls made for the fiber since the blueprint
\* was created and with didCommit equal to the value of that call, so that
\* after N calls count = N and didCommit is the last call's value.
C1_CountAndLastCommit ==
  [][\A fiber \in Fibers, commit \in BOOLEAN :
       (outlineFiber(fiber, commit) /\ fiber \in DOMAIN blueprintMap')
         => /\ blueprintMap'[fiber].count = calls'[fiber]
            /\ blueprintMap'[fiber].didCommit = (IF commit THEN 1 ELSE 0)]_vars

\* A flushOutlines invocation that can still be resumed: its observer has a
\* notification left to deliver.
CanResume(fl) == ENABLED (\E targets \in Bursts(fl.gen.uniqueElements) :
                            observerNotify(fl, targets))

\* C3: a flush cycle without a resolvable rectangle makes no renderOutlines
\* call (no call is made on a page none of whose elements is visible) and
\* still reaches its clearing step (while it holds no rectangle and is in
\* flight, the step that resumes it is possible).
C3_ZeroRectFlushClears ==
  /\ (\A e \in DOMAIN layout : layout[e] # "visible") => rendered = <<>>
  /\ \A fl \in InFlight : fl.rectsMap = EmptyMap => CanResume(fl)

\* C4: at most one flushOutlines invocation is in flight.
C4_SingleFlight == BagCardinality(flushes) <= 1

\* A step in which outlineFiber inserted a blueprint or incremented a count
RecordStep ==
  \E fiber \in DOMAIN blueprintMap' :
    \/ fiber \notin DOMAIN blueprintMap
    \/ blueprintMap'[fiber].count > blueprintMap[fiber].count

\* C5: while a flushOutlines invocation is in flight, no outlineFiber call
\* mutates the blueprint map.
C5_NoRecordDuringFlush == [][InFlight # {} => ~RecordStep]_vars

\* C8: the step in which a flushOutlines invocation completes leaves the
\* blueprint map and its key set empty.
C8_FlushClearsAll ==
  [][BagCardinality(flushes') < BagCardinality(flushes)
       => blueprintMap' = EmptyMap /\ blueprintMapKeys' = <<>>]_vars

\* A fiber none of whose state nodes can obtain a rectangle
NeverResolves(fiber) ==
  \A k \in 1..Len(tree[fiber]) :
    ~isElement(tree[fiber][k]) \/ layout[tree[fiber][k]] # "visible"

\* C8 witness: a flush has just completed and deleted two blueprints, one of
\* which never acquired a rectangle.
C8_Witness ==
  /\ Len(cleared) = 2
  /\ \E k \in 1..2 : NeverResolves(cleared[k])
  /\ blueprintMap = EmptyMap
  /\ blueprintMapKeys = <<>>

\* The least and the greatest member of a set of numbers
SetMin(S) == CHOOSE m \in S : \A n \in S : m <= n

SetMax(S) == CHOOSE m \in S : \A n \in S : m >= n

\* The elements of a blueprint that are among the resolved ones
ResolvedOf(blueprint, resolved) ==
  {blueprint.elements[k] : k \in 1..Len(blueprint.elements)} \cap resolved

\* The record a blueprint is to be passed as: its count, and the bounding
\* rectangle of its resolved elements
ExpectedOutline(map, fiber, resolved) ==
  LET own == ResolvedOf(map[fiber], resolved)
      left == SetMin({RectOf(e).x : e \in own})
      top == SetMin({RectOf(e).y : e \in own})
      right == SetMax({RectOf(e).x + RectOf(e).width : e \in own})
      bottom == SetMax({RectOf(e).y + RectOf(e).height : e \in own})
  IN  [id |-> getFiberId(fiber), name |-> map[fiber].name, count |-> map[fiber].count,
       x |-> left, y |-> top, width |-> right - left, height |-> bottom - top,
       didCommit |-> map[fiber].didCommit]

\* The records to be passed after a batch: the blueprints with a resolved
\* element, in the order of their insertion
ExpectedOutlines(map, keys, resolved) ==
  LET order == SelectSeq(keys, LAMBDA f : ResolvedOf(map[f], resolved) # {})
  IN  [i \in 1..Len(order) |-> ExpectedOutline(map, order[i], resolved)]

\* The elements of a set that are in the viewport with a non-empty rectangle
Visible(elements) == {e \in elements : layout[e] = "visible"}

\* The invocation fl handles a batch in this step: it leaves the bag of the
\* invocations in flight, as it was before the step.
Resumed(fl) == CopiesIn(fl, flushes') < CopiesIn(fl, flushes)

\* The invocation nf is in flight after this step as the step left it.
Suspended(nf) == CopiesIn(nf, flushes') > CopiesIn(nf, flushes)

\* C17: after each batch, flushOutlines builds for renderOutlines exactly the
\* current blueprints with an element reported, in this batch or an earlier one
\* of the invocation, as intersecting with a non-empty rectangle, in insertion
\* order, each with its current count and the bounding rectangle of those
\* elements.  (The elements reported so far are all the observed ones when the
\* invocation completes, and the seen ones of its resolver when it goes on.)
C17_EmitsResolvedBlueprints ==
  [][\A fl \in InFlight :
       Resumed(fl)
         => IF BagCardinality(flushes') < BagCardinality(flushes)
            THEN rendered' = ExpectedOutlines(blueprintMap, blueprintMapKeys,
                               Visible(fl.gen.uniqueElements))
            ELSE \A nf \in BagToSet(flushes') :
                   Suspended(nf)
                     => rendered' = ExpectedOutlines(blueprintMap, blueprintMapKeys,
                                      Visible(nf.gen.seenElements))]_vars

\* C17 witness: two blueprints were passed in their insertion order, the one
\* recorded first with the higher id, the other recorded twice and with the
\* rectangles of its two elements merged.
C17_Witness ==
  /\ Len(rendered) = 2
  /\ rendered[1].id = 2
  /\ rendered[2].id = 1
  /\ rendered[2].count = 2
  /\ rendered[2].width = 30
  /\ rendered[2].height = 30

(***************************************************************************)
(* getBatchedRectMap driven by a consumer of its own (the function is      *)
(* exported).  The consumer pulls with next() whenever it likes; between   *)
(* two pulls the generator is suspended at its yield and resolveNext is    *)
(* null.  A pull and a notification are one task each.                     *)
(***************************************************************************)
\* The arguments a consumer passes: lists of elements, repeats included
ElementLists == UNION {[1..n -> Elements] : n \in 0..MaxElements}

\* The consumer calls next(): the generator starts, or resumes after its yield,
\* and runs to the await of its loop or to its end.
pull ==
  /\ consumer \in {"unstarted", "idle"}
  /\ IF consumer = "unstarted"
     THEN /\ resolver' = StartResolver(argElements)
          /\ consumer' = "waiting"
     ELSE IF resolver.done
          THEN /\ consumer' = "closed"
               /\ UNCHANGED resolver
          ELSE /\ resolver' = [resolver EXCEPT !.resolveNext = TRUE]
               /\ consumer' = "waiting"
  /\ UNCHANGED <<argElements, yielded, repeated, aggVars, rndVars, auxVars>>

\* One notification of the observer, and the microtasks that follow it: when
\* the callback settles the promise, the generator resumes and yields the
\* batch to the consumer, or leaves its loop on an empty one.
burst(targets) ==
  /\ consumer # "unstarted"
  /\ Observing(resolver)
  /\ \E cb \in {ObserverCallback(resolver,
         [k \in 1..Len(targets) |-> EntryOf("visible", targets[k])])} :
       /\ resolver' = cb.gen
       /\ yielded' = IF cb.settled
                     THEN yielded \o [k \in 1..Len(cb.value) |-> cb.value[k].target]
                     ELSE yielded
       /\ consumer' = IF ~cb.settled THEN consumer
                      ELSE IF cb.value # <<>> THEN "idle"
                      ELSE IF cb.gen.done THEN "closed" ELSE "waiting"
  /\ repeated' = (repeated \/ Range(targets) \cap resolver.seenElements # {}
                           \/ Cardinality(Range(targets)) < Len(targets))
  /\ UNCHANGED <<argElements, aggVars, rndVars, auxVars>>

Pull == pull

Burst == \E targets \in Bursts(resolver.uniqueElements) : burst(targets)

InitResolver ==
  /\ argElements \in ElementLists
  /\ resolver = NoResolver
  /\ consumer = "unstarted"
  /\ yielded = <<>>
  /\ repeated = FALSE
  /\ AggIdle
  /\ RendererIdle
  /\ AuxIdle

NextResolver == Pull \/ Burst

SpecResolver == InitResolver /\ [][NextResolver]_vars

(***************************************************************************)
(* Claims about getBatchedRectMap, under SpecResolver                      *)
(***************************************************************************)
\* C2: when the sequence has completed, every element a notification
\* classified as newly seen has been yielded in some batch.
C2_NoNewEntryDropped ==
  consumer = "closed" => resolver.seenElements \subseteq Range(yielded)

\* C6: the batches yielded to the consumer hold each element at most once.
C6_YieldedAtMostOnce ==
  \A i, j \in 1..Len(yielded) : i # j => yielded[i] # yielded[j]

\* C6 witness: two elements have been yielded although the observer reported
\* a target again.
C6_Witness == Len(yielded) = 2 /\ repeated /\ consumer = "closed"

\* C7: once the observer has reported all K elements, the sequence has
\* completed or completes at the consumer's next pull.
C7_CompletesOnceAllReported ==
  (consumer # "unstarted" /\ resolver.seenElements = resolver.uniqueElements)
    => \/ consumer = "closed"
       \/ resolver.done /\ ENABLED pull

(***************************************************************************)
(* The OutlineRenderer methods driven by their own timers and by callers   *)
(***************************************************************************)
resize(sz) ==
  /\ backend # NULL
  /\ resizeArgs' = IF isResizeScheduled THEN <<resizeArgs[1], sz>> ELSE <<sz>>
  /\ size' = sz
  /\ isResizeScheduled' = TRUE
  /\ drew' = 0
  /\ UNCHANGED <<backend, ctx, canvas, activeOutlines, animationFrameId,
                 frameCallbacks, workerAlive, inbox, scrolled, disposed,
                 aggVars, genVars, auxVars>>

\* The setTimeout callback of resize
resizeTimer ==
  /\ isResizeScheduled
  /\ isResizeScheduled' = FALSE
  /\ IF backend = "canvas"
     THEN /\ frameCallbacks < MaxDraws
          /\ canvas' = CanvasSetSize(size)
          /\ \E st \in {Draw([active |-> activeOutlines,
                              animationFrameId |-> animationFrameId,
                              queued |-> frameCallbacks, drew |-> 0])} :
               /\ activeOutlines' = st.active
               /\ animationFrameId' = st.animationFrameId
               /\ frameCallbacks' = st.queued
               /\ drew' = st.drew
          /\ UNCHANGED inbox
     ELSE /\ Len(inbox) < MaxInbox
          /\ canvas' = WorkerSetSize(canvas, size)
          /\ inbox' = PostMessage(inbox,
               [type |-> "resize", width |-> size.width, height |-> size.height,
                dpr |-> Dpr])
          /\ drew' = 0
          /\ UNCHANGED <<activeOutlines, animationFrameId, frameCallbacks>>
  /\ UNCHANGED <<backend, resizeArgs, ctx, size, workerAlive, scrolled, disposed,
                 aggVars, genVars, auxVars>>

\* A scroll call on the renderer
CallScroll(deltaX, deltaY) ==
  /\ backend # NULL
  /\ scrolled < MaxScroll
  /\ scrolled' = scrolled + 1
  /\ IF backend = "canvas"
     THEN /\ activeOutlines' = updateScroll(activeOutlines, deltaX, deltaY)
          /\ UNCHANGED inbox
     ELSE /\ Len(inbox) < MaxInbox
          /\ inbox' = PostMessage(inbox,
               [type |-> "scroll", deltaX |-> deltaX, deltaY |-> deltaY])
          /\ UNCHANGED activeOutlines
  /\ drew' = 0
  /\ UNCHANGED <<backend, resizeArgs, ctx, canvas, size, isResizeScheduled, animationFrameId,
                 frameCallbacks, workerAlive, disposed>>

scroll(deltaX, deltaY) ==
  /\ CallScroll(deltaX, deltaY)
  /\ UNCHANGED <<aggVars, genVars, auxVars>>

\* dispose: empty in CanvasOutlineRenderer, worker.terminate() in
\* WorkerOutlineRenderer (the worker stops and its queue is discarded).
dispose ==
  /\ backend # NULL
  /\ ~disposed
  /\ disposed' = TRUE
  /\ IF backend = "canvas"
     THEN UNCHANGED <<workerAlive, inbox>>
     ELSE /\ workerAlive' = FALSE
          /\ inbox' = <<>>
  /\ drew' = 0
  /\ UNCHANGED <<backend, resizeArgs, ctx, canvas, size, isResizeScheduled, activeOutlines,
                 animationFrameId, frameCallbacks, scrolled, aggVars, genVars, auxVars>>

\* An animation frame: the draw callbacks requested for it run.
frame ==
  /\ frameCallbacks > 0
  /\ \E st \in {RunCallbacks(frameCallbacks,
                  [active |-> activeOutlines, animationFrameId |-> animationFrameId,
                   queued |-> 0, drew |-> 0])} :
       /\ activeOutlines' = st.active
       /\ animationFrameId' = st.animationFrameId
       /\ frameCallbacks' = st.queued
       /\ drew' = st.drew
  /\ UNCHANGED <<backend, resizeArgs, ctx, canvas, size, isResizeScheduled, workerAlive, inbox,
                 scrolled, disposed, aggVars, genVars, auxVars>>

\* The worker handles the message at the head of its queue; a draw-outlines
\* message makes it draw.
workerReceive ==
  /\ workerAlive
  /\ inbox # <<>>
  /\ inbox' = Tail(inbox)
  /\ drew' = IF Head(inbox).type = "draw-outlines" THEN 1 ELSE 0
  /\ UNCHANGED <<backend, resizeArgs, ctx, canvas, size, isResizeScheduled, activeOutlines,
                 animationFrameId, frameCallbacks, workerAlive, scrolled, disposed,
                 aggVars, genVars, auxVars>>

RenderOutlines ==
  \E outlines \in (IF backend = "worker" THEN WireLists ELSE OutlineLists) :
    renderOutlines(outlines)

Resize == \E sz \in Sizes : resize(sz)

Scroll == \E d \in ScrollDeltas : scroll(d[1], d[2])

\* A renderer after its constructor
InitRenderer ==
  /\ backend \in {"canvas", "worker"}
  /\ ctx \in (IF backend = "canvas" THEN BOOLEAN ELSE {FALSE})
  /\ size = InitialSize
  /\ canvas = IF backend = "canvas" THEN CanvasSetSize(InitialSize)
              ELSE WorkerSetSize(BlankCanvas, InitialSize)
  /\ isResizeScheduled = FALSE
  /\ activeOutlines = EmptyMap
  /\ animationFrameId = NULL
  /\ frameCallbacks = 0
  /\ workerAlive = (backend = "worker")
  /\ inbox = IF backend = "worker"
             THEN <<[type |-> "init", width |-> InitialSize.width * Dpr,
                     height |-> InitialSize.height * Dpr, dpr |-> Dpr]>>
             ELSE <<>>
  /\ scrolled = 0
  /\ disposed = FALSE
  /\ drew = 0
  /\ resizeArgs = <<>>
  /\ AggIdle
  /\ GenIdle
  /\ AuxIdle

NextRenderer ==
  \/ RenderOutlines
  \/ Resize
  \/ resizeTimer
  \/ Scroll
  \/ dispose
  \/ frame
  \/ workerReceive

SpecRenderer == InitRenderer /\ [][NextRenderer]_vars

\* The Direct renderer with a 2d context, fed by renderOutlines calls while its
\* draw loop runs and the page scrolls
InitOutlines ==
  /\ InitRenderer
  /\ backend = "canvas"
  /\ ctx

NextOutlines ==
  \/ RenderOutlines
  \/ Scroll
  \/ frame

SpecOutlines == InitOutlines /\ [][NextOutlines]_vars

\* The Offloaded renderer and its worker
InitWorker ==
  /\ InitRenderer
  /\ backend = "worker"

NextWorker ==
  \/ RenderOutlines
  \/ Resize
  \/ resizeTimer
  \/ Scroll
  \/ dispose
  \/ workerReceive

SpecWorker == InitWorker /\ [][NextWorker]_vars

(***************************************************************************)
(* Claims about the renderers, under SpecRenderer; the merge of the Direct *)
(* renderer under SpecOutlines, the wire format under SpecWorker           *)
(***************************************************************************)
\* C9: on the Direct backend at most one draw callback is pending for the
\* next frame, and a frame executes at most one draw step.
C9_OneDrawPerFrame ==
  backend = "canvas" => frameCallbacks <= 1 /\ drew <= 1

\* C10: once dispose() has been called, no step draws.
C10_NoDrawAfterDispose == disposed => drew = 0

\* The records of a list that carry the id of its k-th record
SameId(outlines, k) == {j \in 1..Len(outlines) : outlines[j].id = outlines[k].id}

\* What a renderOutlines call is to leave for the id of the k-th record of its
\* list: the first record of the id creates the entry if the id is not active,
\* every other one updates it, the last one decides target and didCommit.
MergedAsClaimed(before, after, outlines, k) ==
  LET key == ToString(outlines[k].id)
      same == SameId(outlines, k)
      first == outlines[SetMin(same)]
      last == outlines[SetMax(same)]
      entry == after[key]
  IN  /\ key \in DOMAIN after
      /\ entry.frame = 0
      /\ entry.targetX = last.x /\ entry.targetY = last.y
      /\ entry.targetWidth = last.width /\ entry.targetHeight = last.height
      /\ entry.didCommit = last.didCommit
      /\ IF key \in DOMAIN before
         THEN /\ entry.count = before[key].count + Cardinality(same)
              /\ entry.x = before[key].x /\ entry.y = before[key].y
              /\ entry.width = before[key].width /\ entry.height = before[key].height
         ELSE /\ entry.count = first.count + Cardinality(same) - 1
              /\ entry.x = first.x /\ entry.y = first.y
              /\ entry.width = first.width /\ entry.height = first.height

\* C12 (under SpecOutlines): renderOutlines on the Direct backend merges every record under the
\* string form of its id: a new id gets an entry with frame 0, the record's
\* count and current = target = the record's rectangle; an active id gets its
\* target and didCommit overwritten, its count incremented and its frame reset
\* while its current rectangle stays; the other entries are untouched.
C12_MergeById ==
  [][\A outlines \in OutlineLists :
       (backend = "canvas" /\ activeOutlines' # activeOutlines /\ canvas' = canvas
          /\ scrolled' = scrolled /\ frameCallbacks' >= frameCallbacks
          /\ renderOutlines(outlines))
         => /\ \A k \in 1..Len(outlines) :
                 MergedAsClaimed(activeOutlines, activeOutlines', outlines, k)
            /\ \A key \in DOMAIN activeOutlines' :
                 (\A k \in 1..Len(outlines) : ToString(outlines[k].id) # key)
                   => /\ key \in DOMAIN activeOutlines
                      /\ activeOutlines'[key] = activeOutlines[key]]_vars

\* C12 witness: an entry that was updated while active: counted twice, aimed
\* at a rectangle it has not reached, with the didCommit of the later record.
C12_Witness ==
  /\ backend = "canvas"
  /\ "1" \in DOMAIN activeOutlines
  /\ activeOutlines["1"].count = 2
  /\ activeOutlines["1"].frame = 0
  /\ activeOutlines["1"].x = 0
  /\ activeOutlines["1"].targetX = 20
  /\ activeOutlines["1"].didCommit = 0

\* The physical resize the timer is to perform for the size sz
ResizedTo(sz) ==
  IF backend = "canvas"
  THEN canvas'.width = sz.width * Dpr /\ canvas'.height = sz.height * Dpr
  ELSE workerAlive
         => /\ Len(inbox') = Len(inbox) + 1
            /\ inbox'[Len(inbox')] = [type |-> "resize", width |-> sz.width,
                                      height |-> sz.height, dpr |-> Dpr]

\* C13: however many resize calls were made before the pending timer fires,
\* one timer is pending, and when it fires it performs one physical resize,
\* with the size of the most recent call.
C13_DebouncedLastSizeWins ==
  [][/\ \A sz \in Sizes : resize(sz) => isResizeScheduled' /\ canvas' = canvas
                                          /\ inbox' = inbox
     /\ resizeTimer => /\ resizeArgs # <<>>
                       /\ ResizedTo(resizeArgs[Len(resizeArgs)])
                       /\ ~isResizeScheduled']_vars

\* C13 witness: a timer has served two resize calls of different sizes on the
\* Direct backend, and the canvas has the size of the second.
C13_Witness ==
  /\ backend = "canvas"
  /\ ~isResizeScheduled
  /\ Len(resizeArgs) = 2
  /\ resizeArgs[1] # resizeArgs[2]
  /\ canvas.width = resizeArgs[2].width * Dpr

\* C14: on the Direct backend with a 2d context, a draw callback is pending
\* after every renderOutlines call, and no draw callback is pending after a
\* step whose last draw reported that nothing is left to animate.
C14_LoopRestartsAndStops ==
  [][(backend = "canvas" /\ ctx)
       => /\ (\E outlines \in OutlineLists : renderOutlines(outlines))
               => frameCallbacks' >= 1
          /\ (drew' > 0 /\ animationFrameId' = NULL) => frameCallbacks' = 0]_vars

\* The draw-outlines message sent by a step that posts one
Sent == inbox'[Len(inbox')]

\* C15 as stated: the message's buffer has 28 bytes per record, its slots
\* 7i..7i+6 are id, count, x, y, width, height, didCommit of record i, and
\* its names are the records' names.
C15_SlotsAreTheValues ==
  [][\A outlines \in WireLists :
       (backend = "worker" /\ workerAlive /\ renderOutlines(outlines))
         => /\ Len(inbox') = Len(inbox) + 1
            /\ Sent.type = "draw-outlines"
            /\ Sent.data.byteLength = Len(outlines) * 7 * 4
            /\ Len(Sent.names) = Len(outlines)
            /\ \A i \in 0..(Len(outlines) - 1) :
                 /\ Sent.names[i + 1] = outlines[i + 1].name
                 /\ Sent.data.view[7 * i + 1] = outlines[i + 1].id
                 /\ Sent.data.view[7 * i + 2] = outlines[i + 1].count
                 /\ Sent.data.view[7 * i + 3] = outlines[i + 1].x
                 /\ Sent.data.view[7 * i + 4] = outlines[i + 1].y
                 /\ Sent.data.view[7 * i + 5] = outlines[i + 1].width
                 /\ Sent.data.view[7 * i + 6] = outlines[i + 1].height
                 /\ Sent.data.view[7 * i + 7] = outlines[i + 1].didCommit]_vars

\* A natural number a single-precision slot holds exactly
Representable(v) == v <= 16777216 \/ v % Ulp(v) = 0

\* The single-precision number nearest to v (one of them, at a tie)
Nearest(v, w) ==
  /\ Representable(w)
  /\ \A u \in (v - 2)..(v + 2) :
       Representable(u) => (IF u > v THEN u - v ELSE v - u)
                             >= (IF w > v THEN w - v ELSE v - w)

\* C15 amended: one message per call, a buffer of 28 bytes per record, names
\* index-aligned, and every slot holding the single-precision number nearest
\* to the record's value, which is the value itself when the value is
\* representable in single precision.
C15_SlotsAreSinglePrecision ==
  [][\A outlines \in WireLists :
       (backend = "worker" /\ workerAlive /\ renderOutlines(outlines))
         => /\ Len(inbox') = Len(inbox) + 1
            /\ Sent.type = "draw-outlines"
            /\ Sent.data.byteLength = Len(outlines) * 7 * 4
            /\ Len(Sent.data.view) = Len(outlines) * 7
            /\ Len(Sent.names) = Len(outlines)
            /\ \A i \in 0..(Len(outlines) - 1) :
                 LET o == outlines[i + 1]
                     values == <<o.id, o.count, o.x, o.y, o.width, o.height,
                                 o.didCommit>>
                 IN  /\ Sent.names[i + 1] = o.name
                     /\ \A j \in 1..7 :
                          /\ Nearest(values[j], Sent.data.view[7 * i + j])
                          /\ Representable(values[j])
                               => Sent.data.view[7 * i + j] = values[j]]_vars

\* C15 witness: the worker has been sent a message for two records, the
\* second with an id that single precision cannot hold.
C15_Witness ==
  /\ backend = "worker"
  /\ inbox # <<>>
  /\ inbox[Len(inbox)].type = "draw-outlines"
  /\ inbox[Len(inbox)].data.byteLength = 56
  /\ inbox[Len(inbox)].data.view[1] = 1
  /\ inbox[Len(inbox)].data.view[8] = 16777216
  /\ inbox[Len(inbox)].names = <<"A", "B">>

(***************************************************************************)
(* mergeRects on its own                                                   *)
(***************************************************************************)
\* The rectangles mergeRects is applied to
Rects == [x : {0, 20}, y : {0, 5}, width : {10, 30}, height : {0, 10}]

RectLists == UNION {[1..n -> Rects] : n \in 1..MaxRects}

merge ==
  /\ mergedRect = <<>>
  /\ rectList # <<>>
  /\ mergedRect' = <<mergeRects(rectList)>>
  /\ UNCHANGED <<rectList, glueVars, aggVars, genVars, rndVars>>

InitMerge ==
  /\ rectList \in RectLists
  /\ mergedRect = <<>>
  /\ GlueIdle
  /\ AggIdle
  /\ GenIdle
  /\ RendererIdle

NextMerge == merge

SpecMerge == InitMerge /\ [][NextMerge]_vars

\* C16: mergeRects returns the minimal bounding rectangle of a non-empty
\* sequence of rectangles: x and y are the least x and y, width and height
\* reach to the greatest far edges; of a single rectangle it returns that
\* rectangle.
C16_MinimalBoundingRect ==
  mergedRect # <<>> =>
    LET r == mergedRect[1]
        I == 1..Len(rectList)
        left == SetMin({rectList[i].x : i \in I})
        top == SetMin({rectList[i].y : i \in I})
        right == SetMax({rectList[i].x + rectList[i].width : i \in I})
        bottom == SetMax({rectList[i].y + rectList[i].height : i \in I})
    IN  /\ r.x = left /\ r.y = top
        /\ r.width = right - left /\ r.height = bottom - top
        /\ \A i \in I : /\ r.x <= rectList[i].x
                        /\ r.y <= rectList[i].y
                        /\ rectList[i].x + rectList[i].width <= r.x + r.width
                        /\ rectList[i].y + rectList[i].height <= r.y + r.height
        /\ Len(rectList) = 1 => r = rectList[1]

\* C16 witness: three rectangles have been merged into one that is none of them.
C16_Witness ==
  /\ mergedRect # <<>>
  /\ Len(rectList) = 3
  /\ \A i \in 1..3 : mergedRect[1] # rectList[i]
  /\ mergedRect[1].width = 50

(***************************************************************************)
(* The scheduling glue of getCanvasEl: backend selection and the scroll    *)
(* listener.  onPostCommitFiberRoot calls getCanvasEl after every commit.  *)
(***************************************************************************)
\* The positions the window scrolls to
ScrollPositions == {<<0, 0>>, <<1, 0>>, <<2, 0>>, <<2, 1>>}

\* new WorkerOutlineRenderer(canvasEl, size, dpr)
NewWorkerRenderer ==
  /\ backend' = "worker"
  /\ ctx' = FALSE
  /\ size' = InitialSize
  /\ canvas' = WorkerSetSize(BlankCanvas, InitialSize)
  /\ workerAlive' = TRUE
  /\ inbox' = <<[type |-> "init", width |-> InitialSize.width * Dpr,
                 height |-> InitialSize.height * Dpr, dpr |-> Dpr]>>

\* new CanvasOutlineRenderer(canvasEl, size, dpr), where getContext returns a
\* context (has2d) or null
NewCanvasRenderer(has2d) ==
  /\ backend' = "canvas"
  /\ ctx' = has2d
  /\ size' = InitialSize
  /\ canvas' = CanvasSetSize(InitialSize)
  /\ workerAlive' = FALSE
  /\ inbox' = <<>>

\* A script (the browser extension) sets the "use-extension-worker" entry.
setFlag ==
  /\ ~useExtensionWorker
  /\ useExtensionWorker' = TRUE
  /\ UNCHANGED <<supported, listeners, scrollPos, scrollEvents, forwarded,
                 mergeVars, aggVars, genVars, rndVars>>

\* getCanvasEl: the flag is read and removed when workers are supported; a
\* set flag makes a WorkerOutlineRenderer, whose constructor may throw
\* (workerFails); a CanvasOutlineRenderer is made when there is no renderer
\* after that.  A scroll listener with its own closure is added by every call.
getCanvasEl(workerFails, has2d) ==
  /\ Len(listeners) < MaxSetups
  /\ useExtensionWorker' = IF supported THEN FALSE ELSE useExtensionWorker
  /\ IF supported /\ useExtensionWorker /\ ~workerFails
     THEN NewWorkerRenderer
     ELSE IF backend = NULL
          THEN NewCanvasRenderer(has2d)
          ELSE UNCHANGED <<backend, ctx, size, canvas, workerAlive, inbox>>
  /\ IF backend' # backend \/ (supported /\ useExtensionWorker /\ ~workerFails)
     THEN /\ isResizeScheduled' = FALSE
          /\ activeOutlines' = EmptyMap
          /\ animationFrameId' = NULL
          /\ frameCallbacks' = 0
          /\ scrolled' = 0
          /\ disposed' = FALSE
          /\ resizeArgs' = <<>>
     ELSE UNCHANGED <<isResizeScheduled, activeOutlines, animationFrameId,
                      frameCallbacks, scrolled, disposed, resizeArgs>>
  /\ drew' = 0
  /\ listeners' = Append(listeners,
       [fromX |-> scrollPos[1], fromY |-> scrollPos[2],
        prevScrollX |-> scrollPos[1], prevScrollY |-> scrollPos[2],
        isScrollScheduled |-> FALSE, deltaX |-> 0, deltaY |-> 0])
  /\ UNCHANGED <<supported, scrollPos, scrollEvents, forwarded,
                 mergeVars, aggVars, genVars>>

\* One scroll listener's handling of a scroll event to the position pos: the
\* deltas of the event that sets the timer are the ones its callback holds.
OnScroll(l, pos) ==
  [l EXCEPT !.prevScrollX = pos[1], !.prevScrollY = pos[2],
            !.isScrollScheduled = TRUE,
            !.deltaX = IF l.isScrollScheduled THEN @ ELSE pos[1] - l.prevScrollX,
            !.deltaY = IF l.isScrollScheduled THEN @ ELSE pos[2] - l.prevScrollY]

\* The window scrolls and every listener handles the event.
scrollEvent(pos) ==
  /\ scrollEvents < MaxScrollEvents
  /\ pos # scrollPos
  /\ scrollEvents' = scrollEvents + 1
  /\ scrollPos' = pos
  /\ listeners' = [i \in 1..Len(listeners) |-> OnScroll(listeners[i], pos)]
  /\ UNCHANGED <<supported, useExtensionWorker, forwarded,
                 mergeVars, aggVars, genVars, rndVars>>

\* The setTimeout callback of the i-th scroll listener
scrollTimer(i) ==
  /\ i \in 1..Len(listeners)
  /\ listeners[i].isScrollScheduled
  /\ CallScroll(listeners[i].deltaX, listeners[i].deltaY)
  /\ forwarded' = <<forwarded[1] + listeners[i].deltaX,
                    forwarded[2] + listeners[i].deltaY>>
  /\ listeners' = [listeners EXCEPT ![i].isScrollScheduled = FALSE]
  /\ UNCHANGED <<supported, useExtensionWorker, scrollPos, scrollEvents,
                 mergeVars, aggVars, genVars>>

GetCanvasEl == \E workerFails, has2d \in BOOLEAN : getCanvasEl(workerFails, has2d)

ScrollEvent == \E pos \in ScrollPositions : scrollEvent(pos)

ScrollTimer == \E i \in 1..Len(listeners) : scrollTimer(i)

InitGlue ==
  /\ supported \in BOOLEAN
  /\ useExtensionWorker \in BOOLEAN
  /\ listeners = <<>>
  /\ scrollPos = <<0, 0>>
  /\ scrollEvents = 0
  /\ forwarded = <<0, 0>>
  /\ MergeIdle
  /\ AggIdle
  /\ GenIdle
  /\ RendererIdle

NextGlue ==
  \/ setFlag
  \/ GetCanvasEl
  \/ ScrollEvent
  \/ ScrollTimer
  \/ workerReceive

SpecGlue == InitGlue /\ [][NextGlue]_vars

\* C11: with one scroll listener and no scroll timer pending, the deltas
\* passed to outlineRenderer.scroll add up to the net change of the window's
\* scroll position since the listener was added.
C11_ScrollNetEffect ==
  (Len(listeners) = 1 /\ ~listeners[1].isScrollScheduled)
    => /\ forwarded[1] = scrollPos[1] - listeners[1].fromX
       /\ forwarded[2] = scrollPos[2] - listeners[1].fromY

\* C18: once a renderer has been chosen, no step replaces it with a renderer
\* of the other kind.
C18_BackendNeverSwitched ==
  [][backend # NULL => backend' = backend]_vars

(***************************************************************************)
(* The pipeline: the aggregator with a Direct renderer behind it, on a     *)
(* page where one component with two elements in the viewport re-renders.  *)
(***************************************************************************)
PipelineTree == [A |-> <<"e1", "e2">>, B |-> <<"e2">>, H |-> <<"e1">>, N |-> <<"e2">>]

InitPipeline ==
  /\ tree = PipelineTree
  /\ layout = [e \in {"e1", "e2"} |-> "visible"]
  /\ NothingRecorded
  /\ backend = "canvas"
  /\ ctx = TRUE
  /\ canvas = CanvasSetSize(InitialSize)
  /\ size = InitialSize
  /\ isResizeScheduled = FALSE
  /\ activeOutlines = EmptyMap
  /\ animationFrameId = NULL
  /\ frameCallbacks = 0
  /\ workerAlive = FALSE
  /\ inbox = <<>>
  /\ scrolled = 0
  /\ disposed = FALSE
  /\ drew = 0
  /\ resizeArgs = <<>>
  /\ GenIdle
  /\ AuxIdle

\* onRender for the component, which has committed
RecordCommitted == outlineFiber("A", TRUE)

NextPipeline ==
  \/ RecordCommitted
  \/ flushTimer
  \/ flushOutlines
  \/ Notify
  \/ frame

SpecPipeline == InitPipeline /\ [][NextPipeline]_vars

\* The renderer's entry for a blueprint
OutlineOf(active, fiber) == active[ToString(getFiberId(fiber))]

\* C19: flushOutlines on an aggregator without blueprints makes no
\* renderOutlines call and leaves the blueprint map and the key set as they
\* are, and the invocation it starts, having nothing to observe, never gets
\* to make a call or to delete a blueprint.
C19_EmptyFlushIsNoOp ==
  /\ [][(flushOutlines /\ blueprintMapKeys = <<>>)
          => /\ rendered' = <<>>
             /\ UNCHANGED <<blueprintMap, blueprintMapKeys, activeOutlines,
                            animationFrameId, frameCallbacks, inbox>>]_vars
  /\ [](\A fl \in InFlight : fl.gen.uniqueElements = {} => ~Observing(fl.gen))

\* C19 witness: an invocation started without blueprints is in flight (every
\* blueprint of this page has elements), nothing is recorded and nothing has
\* been handed to the renderer by the last step.
C19_Witness ==
  /\ \E fl \in InFlight : fl.gen.uniqueElements = {}
  /\ blueprintMap = EmptyMap
  /\ blueprintMapKeys = <<>>
  /\ rendered = <<>>
  /\ frameCallbacks = 0

\* C20 as stated: when a flush has completed, the ActiveOutline of a
\* blueprint recorded N times and carried by k renderOutlines calls of the
\* flush has the count N + (k - 1).
C20_CountIsCallsPlusBatches ==
  \A f \in DOMAIN delivered :
    ToString(getFiberId(f)) \in DOMAIN activeOutlines
      => OutlineOf(activeOutlines, f).count
           = delivered[f].calls + (delivered[f].batches - 1)

\* C20 amended: every renderOutlines call a flush makes after a batch
\* carries each blueprint the flush has carried before and that is still
\* recorded, with the blueprint's current count; the call sets the count of an
\* ActiveOutline it creates to that count and adds one to the count of an
\* ActiveOutline that exists.
C20_EachCallAddsOne ==
  [][\A fl \in InFlight :
       (Resumed(fl) /\ rendered' # <<>>)
         => /\ \A f \in DOMAIN fl.emitted \cap DOMAIN blueprintMap :
                 f \in FibersOf(rendered')
            /\ \A f \in FibersOf(rendered') :
                 /\ \E k \in 1..Len(rendered') :
                      /\ rendered'[k].id = getFiberId(f)
                      /\ rendered'[k].count = blueprintMap[f].count
                 /\ OutlineOf(activeOutlines', f).count =
                      IF ToString(getFiberId(f)) \in DOMAIN activeOutlines
                      THEN OutlineOf(activeOutlines, f).count + 1
                      ELSE blueprintMap[f].count]_vars

\* C20 witness: a flush has completed that carried a blueprint recorded once
\* in two renderOutlines calls, and the ActiveOutline counts two.
C20_Witness ==
  /\ "A" \in DOMAIN delivered
  /\ delivered["A"].calls = 1
  /\ delivered["A"].batches = 2
  /\ OutlineOf(activeOutlines, "A").count = 2

====
